---- MODULE Spec2Model ----
(***************************************************************************)
(* Model of dest/io/database_io.cpp: the face-landmark database importer   *)
(* (importDatabase, the IMM ".asf" and ibug ".pts" importers, the two      *)
(* annotation parsers and the joint scale / mirror transforms).            *)
(*                                                                         *)
(* Numbers.  The code computes on C++ float.  A float is modelled as an    *)
(* integer count of 1/Unit steps that carries at most MantBits significant *)
(* bits; every arithmetic result is rounded to the nearest such value,     *)
(* ties to even, as IEEE-754 does with 24 bits.                            *)
(*                                                                         *)
(* Inputs.  An annotation file is its sequence of lines, each line by the  *)
(* class the parser puts it in; record and point lines always carry two    *)
(* readable numbers, and a count line a count in 0..MaxPts.  The importers *)
(* run on annotation files whose parse is determinate (well-formed, short, *)
(* unreadable .asf); the parsers on their own run on every file up to      *)
(* MaxLines lines.  maxImageSideLength is positive and no scaled image     *)
(* side rounds to 0 (cv::resize would throw).  The caller's collections    *)
(* start empty or hold one Entry of an earlier call.                       *)
(***************************************************************************)
EXTENDS Integers, Sequences, FiniteSets, TLC

\* ---------------------------------------------------------------- bounds
MantBits == 4       \* significant bits of the modelled float (float has 24)
FracBits == 8       \* the modelled float's smallest step is 2^-FracBits
MaxCand == 2        \* annotation files found in one directory
MaxRects == 2       \* rectangles in one rectangle file
MaxLines == 4       \* lines of an annotation file given to a parser alone
MaxPts == 2         \* largest landmark count an annotation file declares

\* ------------------------------------------------------- float arithmetic
RECURSIVE Pow2(_)
Pow2(k) == IF k <= 0 THEN 1 ELSE 2 * Pow2(k - 1)

Unit == Pow2(FracBits)

Abs(a) == IF a < 0 THEN -a ELSE a

\* the spacing of floats around the magnitude q (q in 1/Unit steps)
RECURSIVE Ulp(_)
Ulp(q) == IF q < Pow2(MantBits) THEN 1 ELSE 2 * Ulp(q \div 2)

\* the float nearest to a / b (in 1/Unit steps), ties to even; b > 0
RoundQ(a, b) ==
    LET mag == Abs(a)
        u   == Ulp(mag \div b)
        d   == b * u
        m   == mag \div d
        rem == mag - m * d
        up  == (2 * rem > d) \/ (2 * rem = d /\ m % 2 = 1)
        res == (IF up THEN m + 1 ELSE m) * u
    IN  IF a < 0 THEN -res ELSE res

IntToFloat(n) == RoundQ(n * Unit, 1)      \* static_cast<float>(int)
FSub(x, y) == RoundQ(x - y, 1)            \* x - y
FMul(x, y) == RoundQ(x * y, Unit)         \* x * y
FDiv(x, y) == RoundQ(x * Unit, y)         \* x / y, y > 0

\* cvRound of n * f for an int n and a float f: nearest int, ties to even
CvRound(n, f) ==
    LET a   == n * f
        m   == a \div Unit
        rem == a - m * Unit
        up  == (2 * rem > Unit) \/ (2 * rem = Unit /\ m % 2 = 1)
    IN  IF up THEN m + 1 ELSE m

Max(a, b) == IF a >= b THEN a ELSE b
Min(a, b) == IF a <= b THEN a ELSE b

\* ------------------------------------------------------- annotation files
\* One line of an annotation file, by the class the parsers put it in.
Line(k, n, x, y) == [k |-> k, n |-> n, x |-> x, y |-> y]

Quarter == Unit \div 4

\* dialect A (.asf): blank or '#' line, a line holding ".jpg", a line of fewer
\* than 10 characters (value atol gives), a record "path type x y"
AsfSkip == Line("skip", 0, 0, 0)
AsfJpg == Line("jpg", 0, 0, 0)
AsfCount(n) == Line("count", n, 0, 0)
AsfRecA == Line("rec", 0, Quarter, 2 * Quarter)          \* x 0.25  y 0.5
AsfRecB == Line("rec", 0, 3 * Quarter, 3 * Quarter)      \* x 0.75  y 0.75
AsfLines == {AsfSkip, AsfJpg, AsfRecA, AsfRecB} \cup {AsfCount(n) : n \in 0..MaxPts}

\* dialect B (.pts): a text line ("version: 1", "{", "}"), "n_points: n",
\* a point line "x y"
PtsText == Line("text", 0, 0, 0)
PtsNPoints(n) == Line("npoints", n, 0, 0)
PtsPtA == Line("pt", 0, 5 * Quarter, 2 * Unit)           \* 1.25 2
PtsPtB == Line("pt", 0, 14 * Quarter, 3 * Unit)          \* 3.5  3
PtsLines == {PtsText, PtsPtA, PtsPtB} \cup {PtsNPoints(n) : n \in 0..MaxPts}

File(open, lines) == [open |-> open, lines |-> lines]
Unreadable == File(FALSE, <<>>)

RECURSIVE SeqsUpTo(_, _)
SeqsUpTo(S, n) ==
    IF n = 0 THEN {<<>>}
    ELSE LET shorter == SeqsUpTo(S, n - 1)
         IN  shorter \cup {Append(q, e) : q \in {t \in shorter : Len(t) = n - 1}, e \in S}

\* what an indeterminate int (numPoints never assigned) or float may hold
GarbageInts == -1..MaxPts
GarbageFloats == {0, Unit}

\* a 2 x n matrix after fill(0)
Zeros(n) == [c \in 1..n |-> <<0, 0>>]

\* ------------------------------------------------------------ parseAsfFile
\* The parser's frame: s is the Shape (a sequence of <<x, y>> columns), pos the
\* next line std::getline will return.
AsfStart == [s |-> <<>>, landmarkCount |-> 0, pos |-> 1, pc |-> "read", ret |-> FALSE]

AsfAtEnd(f, st) == ~f.open \/ st.pos > Len(f.lines)

\* one iteration of the while loop: the set of frames it can lead to
AsfLineStep(f, st) ==
    LET line == f.lines[st.pos]
        next == [st EXCEPT !.pos = st.pos + 1]
    IN  CASE line.k \in {"skip", "jpg"} -> {next}
          [] line.k = "count" -> {[next EXCEPT !.s = Zeros(line.n)]}
          [] OTHER ->
               IF st.landmarkCount < Len(st.s)
               THEN {[next EXCEPT !.s[st.landmarkCount + 1] = <<line.x, line.y>>,
                                  !.landmarkCount = st.landmarkCount + 1]}
               \* s(0, landmarkCount) outside the matrix: undefined behaviour.
               \* Eigen's assertion aborts, or the store lands outside s.
               ELSE {[next EXCEPT !.pc = "crashed"],
                     [next EXCEPT !.landmarkCount = st.landmarkCount + 1]}

\* return s.rows() > 0 && s.cols() > 0 (a Shape always has 2 rows)
AsfReturn(st) == [st EXCEPT !.pc = "done", !.ret = Len(st.s) > 0]

RECURSIVE AsfRun(_, _)
AsfRun(f, st) ==
    IF st.pc # "read" THEN {st}
    ELSE IF AsfAtEnd(f, st) THEN {AsfReturn(st)}
    ELSE UNION {AsfRun(f, n) : n \in AsfLineStep(f, st)}

parseAsfFile(f) == AsfRun(f, AsfStart)

\* ------------------------------------------------------------ parsePtsFile
PtsStart == [s |-> <<>>, numPoints |-> 0, i |-> 0, pos |-> 1, pc |-> "header", ret |-> FALSE]

PtsHasLine(f, p) == f.open /\ p <= Len(f.lines)

\* the three header getlines, str >> line >> numPoints, s.resize, s.fill(0)
PtsHeader(f, st) ==
    LET declared == IF PtsHasLine(f, 2) /\ f.lines[2].k = "npoints"
                    THEN {f.lines[2].n}
                    ELSE GarbageInts       \* numPoints is never assigned
    IN  {IF n < 0
         THEN [st EXCEPT !.pc = "crashed", !.numPoints = n]    \* resize(2, n < 0)
         ELSE [st EXCEPT !.pc = "body", !.numPoints = n, !.s = Zeros(n), !.pos = 4]
         : n \in declared}

\* one iteration of the for loop
PtsPoint(f, st) ==
    IF ~PtsHasLine(f, st.pos)
    THEN {[st EXCEPT !.pc = "done", !.ret = FALSE]}
    ELSE LET line == f.lines[st.pos]
             xy   == IF line.k = "pt" THEN {<<line.x, line.y>>}
                     ELSE {<<0, g>> : g \in GarbageFloats}   \* str >> x >> y fails
         IN  {[st EXCEPT !.s[st.i + 1] = <<FSub(v[1], Unit), FSub(v[2], Unit)>>,
                         !.i = st.i + 1, !.pos = st.pos + 1] : v \in xy}

PtsReturn(st) == [st EXCEPT !.pc = "done", !.ret = TRUE]

RECURSIVE PtsRun(_, _)
PtsRun(f, st) ==
    CASE st.pc = "header" -> UNION {PtsRun(f, n) : n \in PtsHeader(f, st)}
      [] st.pc = "body" ->
           IF st.i < st.numPoints
           THEN UNION {PtsRun(f, n) : n \in PtsPoint(f, st)}
           ELSE {PtsReturn(st)}
      [] OTHER -> {st}

parsePtsFile(f) == PtsRun(f, PtsStart)

\* ------------------------------------------------------------------ images
\* A cv::Mat / core::Image: which picture it holds, its size, and whether the
\* picture is flipped left to right.  cols = rows = 0 is the empty matrix.
Mat(id, cols, rows, flip) == [id |-> id, cols |-> cols, rows |-> rows, flip |-> flip]
NoMat == Mat("none", 0, 0, FALSE)
SmallJpg == Mat("small", 4, 3, FALSE)
LargeJpg == Mat("large", 6, 4, FALSE)
IsEmpty(m) == m.cols = 0 \/ m.rows = 0

\* ImportParameters: the constructor's default cap, and a cap images exceed
IntMax == 2147483647
ImportParameters(cap, mirrored) ==
    [maxImageSideLength |-> cap, generateVerticallyMirrored |-> mirrored]
Options == {ImportParameters(cap, m) : cap \in {4, IntMax}, m \in BOOLEAN}

\* ------------------------------------------------------ geometric transform
\* bool imageNeedsScaling(size, p, factor): <<needed, factor>>
imageNeedsScaling(m, p) ==
    LET maxLen == Max(m.cols, m.rows)
    IN  IF maxLen > p.maxImageSideLength
        THEN <<TRUE, FDiv(IntToFloat(p.maxImageSideLength), IntToFloat(maxLen))>>
        ELSE <<FALSE, 0>>

\* cv::resize(img, img, Size(0,0), factor, factor): dsize = cvRound(size * factor)
Resize(m, factor) == [m EXCEPT !.cols = CvRound(m.cols, factor), !.rows = CvRound(m.rows, factor)]

\* s *= factor, r *= factor: every coefficient of a 2 x n matrix
ScaleMatrix(q, factor) == [c \in 1..Len(q) |-> <<FMul(q[c][1], factor), FMul(q[c][2], factor)>>]

RectScale(q, factor) == ScaleMatrix(q, factor)

\* a scale that leaves out r *= factor
scaleImageShapeAndRect_RectUnscaled(img, s, r, factor) ==
    <<Resize(img, factor), ScaleMatrix(s, factor), r>>

\* scaleImageShapeAndRect: <<img, s, r>> after the call
scaleImageShapeAndRect(img, s, r, factor) ==
    <<Resize(img, factor), ScaleMatrix(s, factor), RectScale(r, factor)>>

\* a mirror about img.cols instead of img.cols - 1
MirrorX_AboutWidth(cols, x) == FSub(IntToFloat(cols), x)

\* dst(0, i) = float(img.cols - 1) - src(0, i);  dst(1, i) = src(1, i)
MirrorX(cols, x) == FSub(IntToFloat(cols - 1), x)

MirrorMatrix(q, cols) == [c \in 1..Len(q) |-> <<MirrorX(cols, q[c][1]), q[c][2]>>]

\* mirrorImageShapeAndRectVertically: <<dstImage, dstShape, dstRect>>
mirrorImageShapeAndRectVertically(img, s, r) ==
    <<[img EXCEPT !.flip = ~img.flip], MirrorMatrix(s, img.cols), MirrorMatrix(r, img.cols)>>

\* ----------------------------------------------------------------- rectangles
RECURSIVE FoldCoord(_, _, _, _)
FoldCoord(s, row, useMax, c) ==
    IF c = Len(s) THEN s[c][row]
    ELSE LET rest == FoldCoord(s, row, useMax, c + 1)
         IN  IF useMax THEN Max(s[c][row], rest) ELSE Min(s[c][row], rest)

\* core::createRectangle(min, max): the four corners
createRectangle(lo, hi) == << <<lo[1], lo[2]>>, <<hi[1], lo[2]>>, <<lo[1], hi[2]>>, <<hi[1], hi[2]>> >>

\* core::shapeBounds(s): the tight axis aligned bound of a Shape with columns
shapeBounds(s) ==
    createRectangle(<<FoldCoord(s, 1, FALSE, 1), FoldCoord(s, 2, FALSE, 1)>>,
                    <<FoldCoord(s, 1, TRUE, 1), FoldCoord(s, 2, TRUE, 1)>>)

\* the k-th rectangle of a rectangle file (k from 1): every index its own box
LoadedRect(k) == createRectangle(<<k * Unit, Quarter>>, <<(k + 2) * Unit, 5 * Quarter>>)

\* io::importRectangles(rectangleFile, loadedRects): what a file can hold
RectangleFiles == {[k \in 1..n |-> LoadedRect(k)] : n \in 0..MaxRects}

\* ---------------------------------------------------------------- directories
\* the annotation files the importers are run on
AsfGood == File(TRUE, <<AsfSkip, AsfCount(2), AsfJpg, AsfRecA, AsfRecB>>)
AsfShort == File(TRUE, <<AsfCount(2), AsfRecA>>)
PtsGood == File(TRUE, <<PtsText, PtsNPoints(2), PtsText, PtsPtA, PtsPtB, PtsText>>)
PtsShort == File(TRUE, <<PtsText, PtsNPoints(2), PtsText, PtsPtA>>)

\* a candidate: base path with its annotation file and its .jpg
Candidate(ann, img) == [ann |-> ann, img |-> img]
JpgFiles == {NoMat, SmallJpg, LargeJpg}
AsfCandidates == {Candidate(a, j) : a \in {AsfGood, AsfShort, Unreadable}, j \in JpgFiles}
PtsCandidates == {Candidate(a, j) : a \in {PtsGood, PtsShort}, j \in JpgFiles}

\* util::findFilesInDir(directory, "asf" / "pts", true) of a directory
Directories ==
    {d \in [asf : SeqsUpTo(AsfCandidates, MaxCand), pts : SeqsUpTo(PtsCandidates, MaxCand)] :
       Len(d.asf) + Len(d.pts) <= MaxCand}

\* cv::imread(fileNameImg, IMREAD_GRAYSCALE)
imread(c) == c.img

\* -------------------------------------------------------------------- state
VARIABLES
    images, shapes, rects,      \* the caller's three output collections
    before,                     \* the three collections as the call received them
    dir, loadedRects, opts,     \* the call's directory, rectangle file and options
    fn,                         \* the importer running: "none", "IMM" or "IBUG"
    pc,                         \* "idle", "loop", "pushed", "mirrored", "returned"
    paths, i, initialSize,      \* the importer's locals
    s, r, cvImg,                \* the loop body's Entry
    cvFlipped, shapeFlipped, rectFlipped,
    ret,                        \* importDatabase's return value, once returned
    fmt, file, parse            \* a parser run on its own: format, file, frame

outVars == <<images, shapes, rects>>
callVars == <<before, dir, loadedRects, opts, fn, paths, initialSize>>
bodyVars == <<s, r, cvImg>>
flipVars == <<cvFlipped, shapeFlipped, rectFlipped>>
importVars == <<outVars, callVars, bodyVars, flipVars, pc, i, ret>>
parserVars == <<fmt, file, parse>>
vars == <<importVars, parserVars>>

\* an Entry an earlier call left in the collections
PriorEntry == <<SmallJpg, <<<<Unit, Unit>>, <<2 * Unit, 2 * Unit>>>>,
                createRectangle(<<Unit, Unit>>, <<2 * Unit, 2 * Unit>>)>>

ImporterIdle ==
    /\ before = <<images, shapes, rects>>
    /\ dir = [asf |-> <<>>, pts |-> <<>>]
    /\ loadedRects = <<>>
    /\ opts = ImportParameters(IntMax, FALSE)
    /\ fn = "none" /\ pc = "idle"
    /\ paths = <<>> /\ i = 0 /\ initialSize = 0
    /\ s = <<>> /\ r = <<>> /\ cvImg = NoMat
    /\ cvFlipped = NoMat /\ shapeFlipped = <<>> /\ rectFlipped = <<>>
    /\ ret = FALSE

ParserIdle == fmt = "none" /\ file = Unreadable /\ parse = AsfStart

Init ==
    /\ \/ images = <<>> /\ shapes = <<>> /\ rects = <<>>
       \/ /\ images = <<PriorEntry[1]>>
          /\ shapes = <<PriorEntry[2]>>
          /\ rects = <<PriorEntry[3]>>
    /\ ImporterIdle
    /\ ParserIdle

\* ------------------------------------------------------------ importDatabase
\* a count check that only catches too few annotation files
RectCountMismatch_TooFewOnly(found, loaded) == loaded # <<>> /\ Len(found) < Len(loaded)

\* loadedRects non-empty and of another size than paths
RectCountMismatch(found, loaded) == loaded # <<>> /\ Len(found) # Len(loaded)

\* the start of an importer, up to the loop
EnterImporter(name, found, loaded) ==
    /\ fn' = name
    /\ paths' = found
    /\ IF RectCountMismatch(found, loaded)
       THEN pc' = "returned" /\ ret' = FALSE /\ initialSize' = initialSize
       ELSE pc' = "loop" /\ ret' = ret /\ initialSize' = Len(images)

importDatabase(d, loaded, o) ==
    /\ pc = "idle"
    /\ dir' = d /\ loadedRects' = loaded /\ opts' = o
    /\ before' = <<images, shapes, rects>>
    /\ LET isIMM == Len(d.asf) > 0
           isIBUG == Len(d.pts) > 0
       IN  IF isIMM THEN EnterImporter("IMM", d.asf, loaded)
           ELSE IF isIBUG THEN EnterImporter("IBUG", d.pts, loaded)
           ELSE /\ pc' = "returned" /\ ret' = FALSE
                /\ UNCHANGED <<fn, paths, initialSize>>
    /\ UNCHANGED <<outVars, bodyVars, flipVars, i, parserVars>>

\* ----------------------------------------------------------- the loop bodies
\* a pairing by loadedRects[i - 1]
ReconcileRect_OffByOne(shape, loaded, idx) ==
    IF loaded = <<>> THEN shapeBounds(shape) ELSE loaded[Max(idx, 1)]

\* r = loadedRects.empty() ? shapeBounds(s) : loadedRects[i]
ReconcileRect(shape, loaded, idx) ==
    IF loaded = <<>> THEN shapeBounds(shape) ELSE loaded[idx + 1]

\* the Entry after the scale policy: <<img, s, r>>
ScalePolicy(img, shape, rect, o) ==
    LET need == imageNeedsScaling(img, o)
    IN  IF need[1] THEN scaleImageShapeAndRect(img, shape, rect, need[2])
        ELSE <<img, shape, rect>>

\* s.row(0) *= cols; s.row(1) *= rows
Denormalize(shape, img) ==
    [c \in 1..Len(shape) |-> <<FMul(shape[c][1], IntToFloat(img.cols)),
                               FMul(shape[c][2], IntToFloat(img.rows))>>]

\* util::toDest(cvImg, img) and the three push_backs of the source Entry;
\* the Image keeps the Mat's picture and size
PushEntry(e) ==
    /\ images' = Append(images, e[1])
    /\ shapes' = Append(shapes, e[2])
    /\ rects' = Append(rects, e[3])
    /\ cvImg' = e[1] /\ s' = e[2] /\ r' = e[3]
    /\ pc' = "pushed" /\ i' = i

\* a skip that still pushes the Shape it parsed
SkipCandidate_PushesShape ==
    /\ i' = i + 1 /\ pc' = "loop"
    /\ s' = <<>> /\ r' = <<>> /\ cvImg' = NoMat
    /\ shapes' = Append(shapes, <<>>)
    /\ UNCHANGED <<images, rects>>

\* the if (ok && !cvImg.empty()) not taken: nothing is pushed, ++i
SkipCandidate ==
    /\ i' = i + 1 /\ pc' = "loop"
    /\ s' = <<>> /\ r' = <<>> /\ cvImg' = NoMat
    /\ UNCHANGED outVars

ClearFlipped == cvFlipped' = NoMat /\ shapeFlipped' = <<>> /\ rectFlipped' = <<>>

\* importIMMFaceDatabase, one candidate up to rects.push_back(r)
IMMCandidate ==
    /\ fn = "IMM" /\ pc = "loop" /\ i < Len(paths)
    /\ \E res \in parseAsfFile(paths[i + 1].ann) :
         LET img == imread(paths[i + 1])
             asfOk == res.pc = "done" /\ res.ret
         IN  IF asfOk /\ ~IsEmpty(img)
             THEN LET s1 == Denormalize(res.s, img)
                      r1 == ReconcileRect(s1, loadedRects, i)
                  IN  PushEntry(ScalePolicy(img, s1, r1, opts))
             ELSE SkipCandidate
    /\ ClearFlipped
    /\ UNCHANGED <<callVars, ret, parserVars>>

\* importIBugAnnotatedFaceDatabase, one candidate up to rects.push_back(r)
IBugCandidate ==
    /\ fn = "IBUG" /\ pc = "loop" /\ i < Len(paths)
    /\ \E res \in parsePtsFile(paths[i + 1].ann) :
         LET img == imread(paths[i + 1])
             ptsOk == res.pc = "done" /\ res.ret
         IN  IF ptsOk /\ ~IsEmpty(img)
             THEN LET r1 == ReconcileRect(res.s, loadedRects, i)
                  IN  PushEntry(ScalePolicy(img, res.s, r1, opts))
             ELSE SkipCandidate
    /\ ClearFlipped
    /\ UNCHANGED <<callVars, ret, parserVars>>

ComputeFlipped ==
    LET m == mirrorImageShapeAndRectVertically(cvImg, s, r)
    IN  cvFlipped' = m[1] /\ shapeFlipped' = m[2] /\ rectFlipped' = m[3]

\* the mirrored branch of importIMMFaceDatabase
IMMMirror ==
    /\ fn = "IMM" /\ pc = "pushed" /\ opts.generateVerticallyMirrored
    /\ ComputeFlipped
    /\ images' = Append(images, cvFlipped')
    /\ shapes' = Append(shapes, shapeFlipped')
    /\ rects' = Append(rects, rectFlipped')
    /\ pc' = "mirrored"
    /\ UNCHANGED <<callVars, bodyVars, i, ret, parserVars>>

\* the mirrored branch of importIBugAnnotatedFaceDatabase: the last push_back
\* is on shapes
IBugMirror ==
    /\ fn = "IBUG" /\ pc = "pushed" /\ opts.generateVerticallyMirrored
    /\ ComputeFlipped
    /\ images' = Append(images, cvFlipped')
    /\ shapes' = Append(Append(shapes, shapeFlipped'), rectFlipped')
    /\ rects' = rects
    /\ pc' = "mirrored"
    /\ UNCHANGED <<callVars, bodyVars, i, ret, parserVars>>

\* the end of a loop body that pushed: ++i
NextCandidate ==
    /\ pc = "mirrored" \/ (pc = "pushed" /\ ~opts.generateVerticallyMirrored)
    /\ i' = i + 1 /\ pc' = "loop"
    /\ UNCHANGED <<outVars, callVars, bodyVars, flipVars, ret, parserVars>>

\* return shapes.size() > 0
IMMReturn ==
    /\ fn = "IMM" /\ pc = "loop" /\ i >= Len(paths)
    /\ ret' = (Len(shapes) > 0)
    /\ pc' = "returned"
    /\ UNCHANGED <<outVars, callVars, bodyVars, flipVars, i, parserVars>>

\* return (shapes.size() - initialSize) > 0; the size_t difference cannot wrap
\* here, shapes being at least as long as images was at entry
IBugReturn ==
    /\ fn = "IBUG" /\ pc = "loop" /\ i >= Len(paths)
    /\ ret' = (Len(shapes) - initialSize > 0)
    /\ pc' = "returned"
    /\ UNCHANGED <<outVars, callVars, bodyVars, flipVars, i, parserVars>>

\* a caller's importDatabase(directory, rectangleFile, images, shapes, rects, opts)
Call ==
    /\ pc = "idle"
    /\ \E d \in Directories, loaded \in RectangleFiles, o \in Options :
         importDatabase(d, loaded, o)

Next ==
    \/ Call
    \/ IMMCandidate
    \/ IMMMirror
    \/ IMMReturn
    \/ IBugCandidate
    \/ IBugMirror
    \/ IBugReturn
    \/ NextCandidate

Spec == Init /\ [][Next]_vars

\* ------------------------------------------------------ the parsers on their own
AsfFiles == {Unreadable} \cup {File(TRUE, l) : l \in SeqsUpTo(AsfLines, MaxLines)}
PtsFiles == {Unreadable} \cup {File(TRUE, l) : l \in SeqsUpTo(PtsLines, MaxLines + 1)}

ParserInit ==
    /\ images = <<>> /\ shapes = <<>> /\ rects = <<>>
    /\ ImporterIdle
    /\ \/ fmt = "asf" /\ file \in AsfFiles /\ parse = AsfStart
       \/ fmt = "pts" /\ file \in PtsFiles /\ parse = PtsStart

AsfGetLine ==
    /\ fmt = "asf" /\ parse.pc = "read" /\ ~AsfAtEnd(file, parse)
    /\ parse' \in AsfLineStep(file, parse)
    /\ UNCHANGED <<fmt, file, importVars>>

AsfDone ==
    /\ fmt = "asf" /\ parse.pc = "read" /\ AsfAtEnd(file, parse)
    /\ parse' = AsfReturn(parse)
    /\ UNCHANGED <<fmt, file, importVars>>

PtsReadHeader ==
    /\ fmt = "pts" /\ parse.pc = "header"
    /\ parse' \in PtsHeader(file, parse)
    /\ UNCHANGED <<fmt, file, importVars>>

PtsReadPoint ==
    /\ fmt = "pts" /\ parse.pc = "body" /\ parse.i < parse.numPoints
    /\ parse' \in PtsPoint(file, parse)
    /\ UNCHANGED <<fmt, file, importVars>>

PtsDone ==
    /\ fmt = "pts" /\ parse.pc = "body" /\ parse.i >= parse.numPoints
    /\ parse' = PtsReturn(parse)
    /\ UNCHANGED <<fmt, file, importVars>>

ParserNext == AsfGetLine \/ AsfDone \/ PtsReadHeader \/ PtsReadPoint \/ PtsDone

ParserSpec == ParserInit /\ [][ParserNext]_vars

\* ======================================================================
\* Properties
\* ======================================================================
\* the annotation files of the dialect importDatabase detects
Detected == IF dir.asf # <<>> THEN dir.asf ELSE dir.pts

UnknownFormat == dir.asf = <<>> /\ dir.pts = <<>>
CountMismatch == loadedRects # <<>> /\ Len(loadedRects) # Len(Detected)
FatalCall == pc # "idle" /\ (UnknownFormat \/ CountMismatch)
Importing == pc # "idle" /\ ~UnknownFormat /\ ~CountMismatch

ParseResults(c) == IF fn = "IMM" THEN parseAsfFile(c.ann) ELSE parsePtsFile(c.ann)
ParseOk(c) == \E res \in ParseResults(c) : res.pc = "done" /\ res.ret
ParsedShape(c) == (CHOOSE res \in ParseResults(c) : TRUE).s
Good(c) == ParseOk(c) /\ ~IsEmpty(c.img)
GoodCount(n) == Cardinality({k \in 1..n : Good(paths[k])})
PerCandidate == IF opts.generateVerticallyMirrored THEN 2 ELSE 1
GrewBy(n) ==
    /\ Len(images) = Len(before[1]) + n
    /\ Len(shapes) = Len(before[2]) + n
    /\ Len(rects) = Len(before[3]) + n

\* the candidate the loop body is working on, and its Entry before scaling
Current == paths[i + 1]
SourceShape == IF fn = "IMM" THEN Denormalize(ParsedShape(Current), Current.img)
               ELSE ParsedShape(Current)
EntryPushed == pc \in {"pushed", "mirrored"}

\* ---------------------------------------------------------------------- C1
\* C1: if images, shapes and rects have equal length when the call starts,
\* they have equal length after every Entry the call appends and when it
\* returns, in both importers and every configuration.
C1_EqualLengths ==
    (Len(before[1]) = Len(before[2]) /\ Len(before[2]) = Len(before[3]))
        => (Len(images) = Len(shapes) /\ Len(shapes) = Len(rects))

\* ---------------------------------------------------------------------- C2
\* C2: importDatabase returns true if and only if a dialect was detected and
\* this call appended at least one Entry, also when the collections were
\* already non-empty.
C2_ReturnIffAppended ==
    pc = "returned" => (ret <=> (fn # "none" /\ Len(images) > Len(before[1])))

\* ---------------------------------------------------------------------- C3
\* C3: on a fatal condition (no "asf" and no "pts" file, or a non-empty
\* rectangle set whose count differs from the detected dialect's annotation
\* files) the call returns false, processes no candidate and leaves the three
\* collections exactly as passed in.
C3_FatalLeavesOutputs ==
    FatalCall => /\ pc = "returned" /\ ret = FALSE
                 /\ <<images, shapes, rects>> = before
                 /\ i = 0 /\ s = <<>> /\ r = <<>> /\ cvImg = NoMat

C3_Witness ==
    /\ pc = "returned" /\ dir.asf = <<>> /\ Len(dir.pts) = 2
    /\ Len(loadedRects) = 1 /\ images # <<>>
    /\ \A k \in 1..2 : dir.pts[k] = Candidate(PtsGood, SmallJpg)

\* ---------------------------------------------------------------------- C4
\* a step of the loop on a candidate whose parse fails or whose image is empty
\* changes none of the three collections and moves on to the next candidate
SkipKeepsGoing ==
    (pc = "loop" /\ i < Len(paths) /\ ~Good(Current))
        => (<<images, shapes, rects>>' = <<images, shapes, rects>>
            /\ i' = i + 1 /\ pc' = "loop")

\* a call that went through its loop has processed every candidate
AllProcessed == (pc = "returned" /\ Importing) => i = Len(paths)

\* exactly one candidate's annotation fails to parse, every other candidate is
\* well-formed, mirroring is disabled, and the call has returned
OneCorrupt ==
    /\ pc = "returned" /\ Importing
    /\ ~opts.generateVerticallyMirrored
    /\ Cardinality({k \in 1..Len(paths) : ~ParseOk(paths[k])}) = 1
    /\ \A k \in 1..Len(paths) : ParseOk(paths[k]) => Good(paths[k])

CornerSet(q) == {q[k] : k \in 1..Len(q)}
Lowest(X) == CHOOSE m \in X : \A x \in X : m <= x
Highest(X) == CHOOSE m \in X : \A x \in X : m >= x
TightCorners(shape) ==
    LET xs == {shape[c][1] : c \in 1..Len(shape)}
        ys == {shape[c][2] : c \in 1..Len(shape)}
    IN  {<<x, y>> : x \in {Lowest(xs), Highest(xs)}, y \in {Lowest(ys), Highest(ys)}}

\* loaded rectangle k, scaled as the current candidate's image is
LoadedScaled(k) ==
    LET need == imageNeedsScaling(Current.img, opts)
    IN  IF need[1] THEN RectScale(loadedRects[k], need[2]) ELSE loadedRects[k]

\* C5: with no loaded rectangles the Rect of every appended Entry is the tight
\* axis-aligned bound of that Entry's own Shape; with loaded rectangles the
\* Entry of the candidate at discovery index i gets loaded rectangle i, also
\* after skipped candidates; no call mixes the two.
C5_RectReconciled ==
    EntryPushed =>
        /\ pc = "pushed" => (rects[Len(rects)] = r /\ shapes[Len(shapes)] = s)
        /\ loadedRects = <<>> =>
              /\ Len(r) = 4 /\ CornerSet(r) = TightCorners(s)
              /\ pc = "mirrored" => CornerSet(rectFlipped) = TightCorners(shapeFlipped)
        /\ loadedRects # <<>> =>
              /\ r = LoadedScaled(i + 1)
              /\ pc = "mirrored" => rectFlipped = MirrorMatrix(LoadedScaled(i + 1), cvImg.cols)

C5_Witness ==
    /\ pc = "pushed" /\ i = 1 /\ Len(loadedRects) = 2
    /\ ~Good(paths[1])
    /\ r = LoadedRect(2) /\ rects[Len(rects)] = LoadedRect(2)

\* ---------------------------------------------------------------------- C6
\* C6: with generateVerticallyMirrored every successfully imported candidate
\* appends exactly two Entries and in each of the three collections the
\* mirrored element sits right after its source element, in both dialects;
\* without it every successful candidate appends exactly one Entry.
C6_MirroredAdjacent ==
    /\ (pc \in {"loop", "returned"} /\ Importing) => GrewBy(PerCandidate * GoodCount(i))
    /\ pc = "mirrored" =>
          /\ Len(images) >= 2 /\ Len(shapes) >= 2 /\ Len(rects) >= 2
          /\ images[Len(images) - 1] = cvImg /\ images[Len(images)] = cvFlipped
          /\ shapes[Len(shapes) - 1] = s /\ shapes[Len(shapes)] = shapeFlipped
          /\ rects[Len(rects) - 1] = r /\ rects[Len(rects)] = rectFlipped

\* ---------------------------------------------------------------------- C8
\* C8: for every appended Entry with decoded size (w, h) and cap =
\* maxImageSideLength: if max(w, h) > cap the image, every Shape coordinate and
\* every Rect coordinate are scaled by the one factor cap / max(w, h) and the
\* stored image's larger side is at most cap; otherwise none of them is scaled.
C8_JointScale ==
    EntryPushed =>
        LET w    == Current.img.cols
            h    == Current.img.rows
            cap  == opts.maxImageSideLength
            s0   == SourceShape
            r0   == ReconcileRect(s0, loadedRects, i)
            f    == FDiv(IntToFloat(cap), IntToFloat(Max(w, h)))
        IN  /\ pc = "pushed" => images[Len(images)] = cvImg
            /\ Len(s) = Len(s0) /\ Len(r) = Len(r0)
            /\ IF Max(w, h) > cap
               THEN /\ cvImg.cols = CvRound(w, f) /\ cvImg.rows = CvRound(h, f)
                    /\ Max(cvImg.cols, cvImg.rows) <= cap
                    /\ \A c \in 1..Len(s) : \A k \in 1..2 : s[c][k] = FMul(s0[c][k], f)
                    /\ \A c \in 1..Len(r) : \A k \in 1..2 : r[c][k] = FMul(r0[c][k], f)
               ELSE cvImg = Current.img /\ s = s0 /\ r = r0

C8_Witness ==
    /\ pc = "pushed" /\ Current.img = LargeJpg /\ opts.maxImageSideLength = 4
    /\ cvImg.cols = 4 /\ cvImg.rows = 3
    /\ loadedRects # <<>> /\ s # SourceShape /\ r # loadedRects[i + 1]

\* ---------------------------------------------------------------------- C9
\* the float W - 1 the mirror subtracts from, W the stored source image's width
MirrorAxis == IntToFloat(cvImg.cols - 1)

\* the mirrored Shape and Rect are built column for column from the stored,
\* already scaled source Entry
MirroredFromStored ==
    pc = "mirrored" =>
        /\ Len(images) >= 2 /\ images[Len(images) - 1] = cvImg
        /\ images[Len(images)] = cvFlipped /\ cvFlipped.cols = cvImg.cols
        /\ Len(shapeFlipped) = Len(s) /\ Len(rectFlipped) = Len(r)
        /\ \A c \in 1..Len(s) :
              shapeFlipped[c] = <<FSub(MirrorAxis, s[c][1]), s[c][2]>>
        /\ \A c \in 1..Len(r) :
              rectFlipped[c] = <<FSub(MirrorAxis, r[c][1]), r[c][2]>>

\* the float subtraction W - 1 - x was exact
ExactMirror(x, mx) == mx = MirrorAxis - x

\* C9 as stated: column i of the mirrored Shape and Rect is (W - 1 - x_i, y_i)
\* of the stored source column, and mirroring twice with the same W gives back
\* the original coordinates.
C9_MirrorTwiceIsIdentity ==
    /\ MirroredFromStored
    /\ pc = "mirrored" =>
          /\ MirrorMatrix(shapeFlipped, cvImg.cols) = s
          /\ MirrorMatrix(rectFlipped, cvImg.cols) = r

\* C9 amended: the columns are the float results of W - 1 - x_i, and mirroring
\* twice gives back x_i wherever W - 1 - x_i is exactly representable.
C9_MirrorTwiceWhereExact ==
    /\ MirroredFromStored
    /\ pc = "mirrored" =>
          /\ \A c \in 1..Len(s) :
                ExactMirror(s[c][1], shapeFlipped[c][1])
                    => MirrorMatrix(shapeFlipped, cvImg.cols)[c] = s[c]
          /\ \A c \in 1..Len(r) :
                ExactMirror(r[c][1], rectFlipped[c][1])
                    => MirrorMatrix(rectFlipped, cvImg.cols)[c] = r[c]

C9_Witness ==
    /\ pc = "mirrored" /\ cvImg.cols # Current.img.cols
    /\ \E c \in 1..Len(s) : ExactMirror(s[c][1], shapeFlipped[c][1])
    /\ \E c \in 1..Len(s) : ~ExactMirror(s[c][1], shapeFlipped[c][1])

\* ---------------------------------------------------------------------- C7
\* coordinate lines a file holds, and the landmark count it declares
CoordLines(f) ==
    IF fmt = "asf" THEN Cardinality({p \in 1..Len(f.lines) : f.lines[p].k = "rec"})
    ELSE Cardinality({p \in 4..Len(f.lines) : f.lines[p].k = "pt"})

Declared(f) ==
    IF fmt = "asf"
    THEN LET at == {p \in 1..Len(f.lines) : f.lines[p].k = "count"}
         IN  IF at = {} THEN 0 ELSE f.lines[Highest(at)].n
    ELSE IF Len(f.lines) >= 2 /\ f.lines[2].k = "npoints" THEN f.lines[2].n ELSE 0

\* C7: both parsers fail when the file cannot be opened and when it holds
\* fewer coordinate lines than it declares; they succeed only with a Shape of
\* N > 0 columns, all read from the file.
C7_ParsersRejectBadFiles ==
    parse.pc = "done" =>
        /\ ~file.open => parse.ret = FALSE
        /\ CoordLines(file) < Declared(file) => parse.ret = FALSE
        /\ parse.ret => (Len(parse.s) > 0 /\ CoordLines(file) >= Len(parse.s))

\* --------------------------------------------------------------------- C10
\* C10: in parseAsfFile every record line is written to a column index strictly
\* below the Shape's current column count: the parser never stores outside the
\* Shape, and the records stored never outnumber the Shape's columns.
C10_AsfWriteInBounds ==
    fmt = "asf" => (parse.pc # "crashed" /\ parse.landmarkCount <= Len(parse.s))

====
